---- MODULE Spec2Model ----
(***************************************************************************)
(* Command executor of claude-admin-bot: the WebSocket executor            *)
(* execute_claude_command (api.py) and the Telegram handler handle_message *)
(* (bot.py).  Each is a coroutine of a single-threaded event loop: a task  *)
(* runs without interruption from one await to the next, so every action   *)
(* below is code that runs without a switch to another task.  The calls    *)
(* that wait for the external process (communicate, wait) are synchronous: *)
(* a task inside one of them keeps the thread of the event loop, and the   *)
(* call ends by the action Wake.  An await takes no time of the schedule.  *)
(***************************************************************************)
EXTENDS Integers, Sequences, FiniteSets, TLC

\* ------------------------------------------------------------------ bounds
\* Number of incoming transport messages (requests) of one run.
NumReq == 2
\* Number of injected faults (an OS call or a reporter call that raises).
MaxFaults == 1
\* Number of lines of a captured response.
MaxLines == 2

\* ------------------------------------------------------- program constants
INITIAL_WAIT == 10
poll_interval == 30
HARD_CEILING == 300
SPLIT_LIMIT == 4000
ADMIN_ID == 372886754

Req == 1..NumReq

VARIABLES
    ep,      \* the program that runs: "api" (api.py) or "bot" (bot.py)
    busy,    \* claude_busy (api.py) / bot_busy (bot.py)
    faults,  \* faults injected so far
    task,    \* task[r]: the coroutine handling request r and what it has done
    io       \* the texts of one call: prompt and command line, or captured
             \* output and the response made of it (TextSpec, QuoteSpec)

vars == <<ep, busy, faults, task, io>>

\* The texts are not followed while the scheduling of the calls is.
NoIO == [pc |-> "none"]

\* ------------------------------------------------------------ the callers
\* A caller of the transport: the Telegram user id it writes from and the
\* Authorization header it can present to the HTTP API.
NoHeader == [scheme |-> "", token |-> ""]
Callers ==
    { [user_id |-> ADMIN_ID,     authorization |-> [scheme |-> "Bearer", token |-> "valid"]],
      [user_id |-> ADMIN_ID + 1, authorization |-> NoHeader],
      [user_id |-> ADMIN_ID + 1, authorization |-> [scheme |-> "Bearer", token |-> "forged"]],
      [user_id |-> ADMIN_ID + 1, authorization |-> [scheme |-> "Basic", token |-> "valid"]] }

is_admin(user_id) == user_id = ADMIN_ID

\* auth.verify_token: the payload of a token signed with SECRET_KEY, else None.
verify_token(token) == IF token = "valid" THEN "payload" ELSE "None"

\* get_current_user: TRUE when it returns a payload, FALSE when it raises 401.
get_current_user(authorization) ==
    IF authorization = NoHeader THEN FALSE
    ELSE IF authorization.scheme # "Bearer" THEN FALSE
    ELSE verify_token(authorization.token) # "None"

\* The authorization check of the running program, applied to a caller.
Authorized(c) ==
    IF ep = "bot" THEN is_admin(c.user_id) ELSE get_current_user(c.authorization)

\* ------------------------------------------------------------- the output
\* A captured response, as the lengths of its lines.
LineLens == {10, 2500, 4500}
Outputs == UNION { [1..n -> LineLens] : n \in 1..MaxLines }

RECURSIVE SumLens(_)
SumLens(lines) == IF lines = <<>> THEN 0 ELSE Head(lines) + SumLens(Tail(lines))

\* len(response): the lines joined by one newline each.
TextLen(lines) == SumLens(lines) + Len(lines) - 1

\* bot.py: the loop that cuts a long response into parts; parts and
\* current_part are kept as lengths.
RECURSIVE SplitLines(_, _, _)
SplitLines(lines, parts, current_part) ==
    IF lines = <<>>
    THEN IF current_part > 0 THEN Append(parts, current_part) ELSE parts
    ELSE IF current_part + Head(lines) + 1 > SPLIT_LIMIT
         THEN SplitLines(Tail(lines), Append(parts, current_part), Head(lines) + 1)
         ELSE SplitLines(Tail(lines), parts, current_part + Head(lines) + 1)

\* Number of messages the response is sent in: api.py sends one message,
\* bot.py one per part when the response is longer than the limit.
NumMessages(program, lines) ==
    IF program = "bot" /\ TextLen(lines) > SPLIT_LIMIT
    THEN Len(SplitLines(lines, <<>>, 0))
    ELSE 1

\* --------------------------------------------------------------- the task
NewTask ==
    [ pc       |-> "new",     \* the await the coroutine is suspended at
      auth     |-> FALSE,     \* the caller passes the authorization check
      acq      |-> 0,         \* times this call set the busy flag
      rel      |-> 0,         \* times this call cleared the busy flag
      elapsed  |-> 0,         \* the local variable elapsed
      exit_at  |-> 0,         \* second after the spawn at which the process
                              \* exited inside communicate (0: it did not)
      ceiling  |-> FALSE,     \* the while loop ended by its condition
      events   |-> <<>>,      \* the reporter calls made, in order
      shell    |-> "none",    \* claude_process: none / running / exited
      child    |-> "none",    \* the pipeline the shell launched
      sigs     |-> <<>>,      \* signals sent to the process group
      parts    |-> 0,         \* messages of the response still to send
      exc      |-> FALSE,     \* the pending await raises when resumed
      result   |-> "none" ]   \* how the call ended: returned / raised

Init ==
    /\ ep \in {"api", "bot"}
    /\ busy = FALSE
    /\ faults = 0
    /\ task = [r \in Req |-> NewTask]
    /\ io = NoIO

\* The coroutine of request r together with the shared state it can touch
\* and the program it belongs to.
World(r) == [t |-> task[r], busy |-> busy, faults |-> faults, ep |-> ep]

\* A call that has returned leaves nothing in the program but the busy flag:
\* its record is kept until the event loop takes its next step, and the slot
\* then stands for a message that has not arrived yet.
Free(q) == task[q].pc \in {"new", "done"}

Kept == [q \in Req |-> IF task[q].pc = "done" THEN NewTask ELSE task[q]]

\* The coroutine is inside a synchronous wait for its process:
\* communicate(timeout=10), communicate(timeout=poll_interval), or
\* wait(timeout=5) of the ceiling branch or of the except block.
Blocked(t) == t.pc \in {"first_wait", "poll_wait", "grace", "except_grace"}

\* The thread of the event loop is not inside a synchronous call of a
\* coroutine other than r (r = 0: of any coroutine).
ThreadFree(r) == \A q \in Req \ {r} : ~Blocked(task[q])

Commit(r, w) ==
    /\ ThreadFree(r)
    /\ task' = [Kept EXCEPT ![r] = w.t]
    /\ busy' = w.busy
    /\ faults' = w.faults
    /\ UNCHANGED <<ep, io>>

\* ------------------------------------------------------------ the reporter
\* One reporter call: its kind, the elapsed value it shows (0: none) and
\* whether the transport delivered it.
Ev(kind, n, ok) == [kind |-> kind, elapsed |-> n, ok |-> ok]

\* manager.send_message (api.py) / message.answer, status_msg.edit_text
\* (bot.py), after which the coroutine is suspended at `at`.  A failed
\* delivery is swallowed by send_message and raises in bot.py.
Report(w, kind, n, at) ==
    { [w EXCEPT !.t.events = Append(@, Ev(kind, n, TRUE)), !.t.pc = at] }
    \cup
    IF w.faults < MaxFaults
    THEN { [w EXCEPT !.t.events = Append(@, Ev(kind, n, FALSE)), !.t.pc = at,
                     !.t.exc = (w.ep = "bot"), !.faults = @ + 1] }
    ELSE {}

\* ------------------------------------------------------ the process group
\* What the process group may have done by the time the code looks at it:
\* nothing, the pipeline finished (the shell exits after its child), or,
\* once SIGTERM was sent, any member ended on its own.
Termed(t) == \E i \in 1..Len(t.sigs) : t.sigs[i] = "SIGTERM"

Observe(w) ==
    IF w.t.shell # "running" THEN {w}
    ELSE {w, [w EXCEPT !.t.shell = "exited", !.t.child = "exited"]}
         \cup
         IF Termed(w.t)
         THEN { [w EXCEPT !.t.shell = s, !.t.child = c] :
                  s \in {"running", "exited"}, c \in {w.t.child, "exited"} }
         ELSE {}

\* os.killpg(os.getpgid(claude_process.pid), sig): the worlds where the
\* signal was sent (SIGKILL ends every member) and those where the call raised.
killpg_sent(w, sig) ==
    IF sig = "SIGKILL"
    THEN [w EXCEPT !.t.sigs = Append(@, sig), !.t.shell = "exited",
                   !.t.child = IF @ = "running" THEN "exited" ELSE @]
    ELSE [w EXCEPT !.t.sigs = Append(@, sig)]

killpg_raised(w) ==
    IF w.faults < MaxFaults THEN {[w EXCEPT !.faults = @ + 1]} ELSE {}

\* claude_process.wait(timeout=5) after SIGTERM: the worlds where it
\* returns (the shell exited) and those where it raises TimeoutExpired.
wait_outcomes(w) ==
    { [w EXCEPT !.t.shell = s, !.t.child = c] :
        s \in {"running", "exited"}, c \in {w.t.child, "exited"} }

\* ------------------------------------------------- except / finally blocks
\* except Exception as e: logger.error, then the error message is sent.
handler(w) == Report([w EXCEPT !.t.exc = FALSE], "error", 0, "h_sent")

\* The rest of the except block: the termination routine, every exception
\* of which is swallowed.  After SIGTERM the coroutine is inside
\* wait(timeout=5).
terminate(w) ==
    UNION { IF o.t.shell = "running"
            THEN killpg_raised(o)
                 \cup {[killpg_sent(o, "SIGTERM") EXCEPT !.t.pc = "except_grace"]}
            ELSE {o}
          : o \in Observe(w) }

\* The release placed after the try statement instead of in finally: a call
\* that ends by an exception keeps the flag.
release_unless_raised(w, res) ==
    [w EXCEPT !.busy = (res = "raised"),
              !.t.rel = IF res = "raised" THEN @ ELSE @ + 1,
              !.t.exc = FALSE, !.t.pc = "done", !.t.result = res]

\* finally: claude_busy = False; the call ends with `res` (returned, or
\* raised when an exception is on its way out).
release(w, res) ==
    [w EXCEPT !.busy = FALSE, !.t.rel = @ + 1, !.t.exc = FALSE,
              !.t.pc = "done", !.t.result = res]

\* SIGKILL is sent without asking poll() first.
final_kill_unchecked(w) ==
    IF w.t.shell = "none" THEN {w}
    ELSE UNION { killpg_raised(o) \cup {killpg_sent(o, "SIGKILL")} : o \in Observe(w) }

\* The last statement of finally: a process that poll() reports as running
\* gets SIGKILL, an exception of which is swallowed.
final_kill(w) ==
    UNION { IF o.t.shell = "running"
            THEN killpg_raised(o) \cup {killpg_sent(o, "SIGKILL")}
            ELSE {o}
          : o \in Observe(w) }

\* finally: the flag is released, then the process is looked after.
finally(w, res) == final_kill(release(w, res))

\* ------------------------------------------------------------ the response
\* The response is sent: its first (or only) message.
respond(w) ==
    Report([w EXCEPT !.t.parts = @ - 1], "response", 0, "resp_sent")

\* communicate() returned at second t: the response is `out`.  In the
\* polling loop bot.py first deletes its status message, an await that may
\* raise.
completed(w, out, t, in_loop) ==
    LET c == [w EXCEPT !.t.shell = "exited", !.t.child = "exited",
                       !.t.exit_at = t, !.t.parts = NumMessages(w.ep, out)]
    IN IF w.ep = "bot" /\ in_loop
       THEN { [c EXCEPT !.t.pc = "deleted"] }
            \cup
            IF c.faults < MaxFaults
            THEN { [c EXCEPT !.t.pc = "deleted", !.t.exc = TRUE, !.faults = @ + 1] }
            ELSE {}
       ELSE respond(c)

\* communicate(timeout=...) raises an exception other than TimeoutExpired.
communicate_raised(w) ==
    IF w.faults < MaxFaults THEN handler([w EXCEPT !.faults = @ + 1]) ELSE {}

\* ------------------------------------------------------ the bounded wait
\* The seconds after the spawn at which the process is taken to exit: one
\* inside the initial wait and one inside each pass of the polling loop,
\* none at the instant a timeout expires.
ExitTimes == {2} \cup {INITIAL_WAIT + k * poll_interval + 5 : k \in 0..9}

\* communicate(timeout=n), entered `waited` seconds after the spawn,
\* returns when the process exits before the timeout expires.
exits_within(waited, timeout) ==
    {t \in ExitTimes : waited < t /\ t <= waited + timeout}

\* communicate(timeout=10) ends: the first 10 seconds are waited without a
\* status.
first_wait(w) ==
    UNION { completed(w, out, t, FALSE)
          : out \in Outputs, t \in exits_within(0, INITIAL_WAIT) }
    \cup Report(w, "progress", 0, "status0")
    \cup communicate_raised(w)

\* The else branch of the while loop: the hard ceiling is reached, SIGTERM
\* is sent and the coroutine is inside wait(timeout=5).
ceiling_reached(w) ==
    LET c == [w EXCEPT !.t.ceiling = TRUE]
    IN UNION { handler(k) : k \in killpg_raised(c) }
       \cup {[killpg_sent(c, "SIGTERM") EXCEPT !.t.pc = "grace"]}

\* wait() without a timeout: it returns when the shell has exited and never
\* otherwise.
grace_wait_no_timeout(w) ==
    UNION { IF o.t.shell = "exited"
            THEN Report(o, "timeout", 0, "timeout_sent")
            ELSE {[o EXCEPT !.t.pc = "wait_forever"]}
          : o \in wait_outcomes(w) }

\* An exception of wait(timeout=5) is swallowed and the message is sent.
grace_wait_swallowed(w) ==
    UNION { Report(o, "timeout", 0, "timeout_sent") : o \in wait_outcomes(w) }

\* wait(timeout=5) of the ceiling branch ends: it returned, or it raised
\* TimeoutExpired.
grace_wait(w) ==
    UNION { IF o.t.shell = "exited"
            THEN Report(o, "timeout", 0, "timeout_sent")
            ELSE handler(o)
          : o \in wait_outcomes(w) }

\* The status is sent before elapsed is advanced: it shows the old value.
poll_wait_stale(w) ==
    UNION { completed(w, out, t, TRUE)
          : out \in Outputs, t \in exits_within(w.t.elapsed, poll_interval) }
    \cup Report([w EXCEPT !.t.elapsed = @ + poll_interval],
                "progress", w.t.elapsed, "status")
    \cup communicate_raised(w)

\* bot.py tests a ceiling one pass later than api.py.
poll_loop_bot_later(w) ==
    IF w.t.elapsed < (IF w.ep = "bot" THEN HARD_CEILING + poll_interval ELSE HARD_CEILING)
    THEN {[w EXCEPT !.t.pc = "poll_wait"]}
    ELSE ceiling_reached(w)

\* The test of `while elapsed < 300`: the next pass enters
\* communicate(timeout=poll_interval), or the else branch runs.
poll_loop(w) ==
    IF w.t.elapsed < HARD_CEILING
    THEN {[w EXCEPT !.t.pc = "poll_wait"]}
    ELSE ceiling_reached(w)

\* communicate(timeout=poll_interval) ends: the response, or elapsed is
\* advanced and a status is sent, or another exception.
poll_wait(w) ==
    UNION { completed(w, out, t, TRUE)
          : out \in Outputs, t \in exits_within(w.t.elapsed, poll_interval) }
    \cup Report([w EXCEPT !.t.elapsed = @ + poll_interval],
                "progress", w.t.elapsed + poll_interval, "status")
    \cup communicate_raised(w)

\* -------------------------------------------------------------- the gate
\* The test reads a flag that is never set.
gate_never_busy(w) == FALSE

\* `if claude_busy:` / `if bot_busy:`
gate_busy(w) == w.busy

\* The busy branch placed inside the try block: its return runs finally.
reject_through_finally(w) ==
    { [x EXCEPT !.busy = FALSE, !.t.rel = @ + 1, !.t.result = "returned",
                !.t.exc = FALSE]
      : x \in Report(w, "busy", 0, "done") }

\* The busy branch returns without a message.
reject_silent(w) ==
    { [w EXCEPT !.t.pc = "done", !.t.result = "returned"] }

\* The busy branch: one message, return.  It is outside the try block: in
\* bot.py a failed message.answer leaves the handler as an exception.
reject(w) ==
    { [x EXCEPT !.t.result = IF x.t.exc THEN "raised" ELSE "returned",
                !.t.exc = FALSE]
      : x \in Report(w, "busy", 0, "done") }

\* The flag is taken and the process is spawned in a new process group;
\* the coroutine is then inside communicate(timeout=10).
acquire(w) ==
    LET a == [w EXCEPT !.busy = TRUE, !.t.acq = @ + 1]
    IN (IF a.faults < MaxFaults
        THEN handler([a EXCEPT !.faults = @ + 1])
        ELSE {})
       \cup {[a EXCEPT !.t.shell = "running", !.t.child = "running",
                       !.t.pc = "first_wait"]}

\* ---------------------------------------------------- the resumed coroutine
\* What the coroutine does when the synchronous wait it is inside ends.
wake(w) ==
    CASE w.t.pc = "first_wait" -> first_wait(w)
      [] w.t.pc = "poll_wait" -> poll_wait(w)
      [] w.t.pc = "grace" -> grace_wait(w)
      [] w.t.pc = "except_grace" ->
           UNION { finally(k, "returned") : k \in wait_outcomes(w) }

\* After the await of a status message: elapsed = 10 after the first one,
\* then the test of the loop.
after_status(w) ==
    IF w.t.exc THEN handler(w)
    ELSE IF w.t.pc = "status0"
         THEN poll_loop([w EXCEPT !.t.elapsed = INITIAL_WAIT])
         ELSE poll_loop(w)

\* bot.py, after `await status_msg.delete()`.
after_delete(w) == IF w.t.exc THEN handler(w) ELSE respond(w)

\* After the await of a message of the response: the next part, or the end
\* of the try block.
after_response(w) ==
    IF w.t.exc THEN handler(w)
    ELSE IF w.t.parts > 0
         THEN Report([w EXCEPT !.t.parts = @ - 1], "part", 0, "resp_sent")
         ELSE finally(w, "returned")

\* After the await of the timeout message: return.
after_timeout(w) == IF w.t.exc THEN handler(w) ELSE finally(w, "returned")

\* After the await of the error message: the termination routine, then
\* finally.  In bot.py a failed message.answer leaves the except block.
after_error(w) ==
    IF w.t.exc THEN finally(w, "raised")
    ELSE UNION { IF Blocked(k.t) THEN {k} ELSE finally(k, "returned")
               : k \in terminate(w) }

\* ------------------------------------------------------------ the actions
\* The transport hands message r to its handler.  bot.py drops a caller
\* that is not the admin and serves an existing file path itself; api.py
\* starts the executor as a task for every non-empty text message.
Receive(r) ==
    /\ ThreadFree(0)
    /\ Free(r)
    /\ \A q \in Req : q < r => ~Free(q)
    /\ \E c \in Callers, kind \in {"text", "other"} :
         LET t == [NewTask EXCEPT !.auth = Authorized(c)]
             go == IF ep = "bot" THEN is_admin(c.user_id) /\ kind = "text"
                   ELSE kind = "text"
         IN task' = [Kept EXCEPT ![r] =
                IF go THEN [t EXCEPT !.pc = "start"]
                ELSE [t EXCEPT !.pc = "done", !.result = "returned"]]
    /\ UNCHANGED <<ep, busy, faults, io>>

\* The busy flag is set: the request is rejected.
Reject(r) ==
    /\ task[r].pc = "start"
    /\ gate_busy(World(r))
    /\ \E w \in reject(World(r)) : Commit(r, w)

\* The busy flag is free: it is taken and the process is spawned.
Start(r) ==
    /\ task[r].pc = "start"
    /\ ~gate_busy(World(r))
    /\ \E w \in acquire(World(r)) : Commit(r, w)

\* The synchronous wait the coroutine is inside ends.
Wake(r) ==
    /\ Blocked(task[r])
    /\ \E x \in wake(World(r)) : Commit(r, x)

\* A status message was sent: the polling loop goes on.
Poll(r) ==
    /\ task[r].pc \in {"status0", "status"}
    /\ \E x \in after_status(World(r)) : Commit(r, x)

\* bot.py: the status message was deleted: the response is sent.
AfterDelete(r) ==
    /\ task[r].pc = "deleted"
    /\ \E x \in after_delete(World(r)) : Commit(r, x)

\* A message of the response was sent: the next part follows, or the call
\* returns through finally.
AfterResponse(r) ==
    /\ task[r].pc = "resp_sent"
    /\ \E x \in after_response(World(r)) : Commit(r, x)

\* The timeout message was sent: return, through finally.
AfterTimeout(r) ==
    /\ task[r].pc = "timeout_sent"
    /\ \E x \in after_timeout(World(r)) : Commit(r, x)

\* The error message was sent: the termination routine, then finally.  In
\* bot.py a failed message.answer leaves the except block at once.
AfterError(r) ==
    /\ task[r].pc = "h_sent"
    /\ \E x \in after_error(World(r)) : Commit(r, x)

Next ==
    \E r \in Req :
        \/ Receive(r)
        \/ Reject(r)
        \/ Start(r)
        \/ Wake(r)
        \/ Poll(r)
        \/ AfterDelete(r)
        \/ AfterResponse(r)
        \/ AfterTimeout(r)
        \/ AfterError(r)

Spec == Init /\ [][Next]_vars

\* The steps of the coroutine of request r.
Step(r) ==
    \/ Reject(r) \/ Start(r) \/ Wake(r) \/ Poll(r) \/ AfterDelete(r)
    \/ AfterResponse(r) \/ AfterTimeout(r) \/ AfterError(r)

\* The call has set the busy flag and has not cleared it yet.
Holding(t) == t.acq > t.rel

\* The event loop runs its ready tasks in turn, every await of the code
\* completes or raises, and every synchronous wait has a timeout: the
\* coroutine that holds the flag takes its next step when that step stays
\* possible.  No message has to arrive and no other coroutine has to run.
FairSpec == Spec /\ WF_vars(\E r \in Req : Holding(task[r]) /\ Step(r))

\* ------------------------------------------------- the two programs side by side
\* One step of one call, from the await or the wait it stands at.
advance(w) ==
    CASE w.t.pc = "start" -> IF gate_busy(w) THEN reject(w) ELSE acquire(w)
      [] Blocked(w.t) -> wake(w)
      [] w.t.pc \in {"status0", "status"} -> after_status(w)
      [] w.t.pc = "deleted" -> after_delete(w)
      [] w.t.pc = "resp_sent" -> after_response(w)
      [] w.t.pc = "timeout_sent" -> after_timeout(w)
      [] w.t.pc = "h_sent" -> after_error(w)
      [] OTHER -> {}

\* Every call of the reporter made so far was delivered, status_msg.delete()
\* included.
Reliable(w) == ~w.t.exc /\ \A i \in 1..Len(w.t.events) : w.t.events[i].ok

\* The steps bot.py has and api.py has not: the deletion of the status
\* message and the second and later messages of one response.
Inner(w) == w.t.pc = "deleted" \/ (w.t.pc = "resp_sent" /\ w.t.parts > 0)

RECURSIVE settle(_)
settle(w) ==
    IF Inner(w)
    THEN UNION { settle(x) : x \in {y \in advance(w) : Reliable(y)} }
    ELSE {w}

\* One step of the lifecycle with a reporter that does not fail.
lifecycle_step(w) == UNION { settle(x) : x \in {y \in advance(w) : Reliable(y)} }

\* What is compared: the flag and the faults met, the whole record of the
\* call (the wait or await it stands at, elapsed, the ceiling, the signals,
\* the process, the outcome) and its reporter calls, one per event.
Obs(w) ==
    [ busy |-> w.busy, faults |-> w.faults,
      t |-> [w.t EXCEPT !.parts = 0,
                        !.events = SelectSeq(@, LAMBDA e : e.kind # "part")] ]

\* A message has reached the gate of each program; the flag is free or
\* held by an earlier call.
Arrived(program, g) ==
    [ t |-> [NewTask EXCEPT !.pc = "start", !.auth = TRUE],
      busy |-> g, faults |-> 0, ep |-> program ]

PairInit ==
    /\ ep = "api"
    /\ busy = FALSE
    /\ faults = 0
    /\ task = [r \in Req |-> NewTask]
    /\ \E g \in BOOLEAN :
         io = [pc |-> "pair", a |-> Arrived("api", g), b |-> Arrived("bot", g)]

\* Both programs take the step that the same behaviour of the process
\* leads them to.
PairMove ==
    \E x \in lifecycle_step(io.a), y \in lifecycle_step(io.b) :
        /\ Obs(x) = Obs(y)
        /\ io' = [io EXCEPT !.a = x, !.b = y]
        /\ UNCHANGED <<ep, busy, faults, task>>

\* The gate is passed or the message is rejected.
PairGate == io.a.t.pc = "start" /\ PairMove

\* A wait ends or an await is resumed.
PairRun == io.a.t.pc # "start" /\ PairMove

PairNext == PairGate \/ PairRun

PairSpec == PairInit /\ [][PairNext]_vars

\* ------------------------------------------------ the parts of a long response
\* Number of lines of a response that is split.
MaxSplitLines == 3

\* Lengths of a line: empty, short, long, and around the limit.
SplitLens == {0, 10, 2500, SPLIT_LIMIT - 1, SPLIT_LIMIT, 4500}

\* The responses bot.py splits: longer than the limit; the text was
\* stripped, so its first and its last line are not empty.
LongResponses ==
    { l \in UNION { [1..n -> SplitLens] : n \in 1..MaxSplitLines } :
        /\ l[1] > 0 /\ l[Len(l)] > 0
        /\ TextLen(l) > SPLIT_LIMIT }

\* bot.py has the filtered response of a call and finds it longer than the
\* limit.
SplitInit ==
    /\ ep = "bot"
    /\ busy = TRUE
    /\ faults = 0
    /\ task = [r \in Req |-> NewTask]
    /\ io \in { [pc |-> "long", lines |-> l] : l \in LongResponses }

\* The loop over the lines and the append after it.
Split ==
    /\ io.pc = "long"
    /\ io' = [pc |-> "parts", lines |-> io.lines,
              parts |-> SplitLines(io.lines, <<>>, 0), sent |-> 0]
    /\ UNCHANGED <<ep, busy, faults, task>>

\* message.answer of the next part.
SendPart ==
    /\ io.pc = "parts"
    /\ io.sent < Len(io.parts)
    /\ io' = [io EXCEPT !.sent = @ + 1]
    /\ UNCHANGED <<ep, busy, faults, task>>

SplitNext == Split \/ SendPart

SplitSpec == SplitInit /\ [][SplitNext]_vars

\* ==================================================== the text of a call
\* A text is a sequence of atoms.  An atom stands for the characters it is
\* written with: "\n" and " " are white space, FENCE is the marker of three
\* backquotes, and no other atom holds a backquote, a newline or a space.
FENCE == "<3 backquotes>"
IsSpace(c) == c \in {" ", "\n"}

\* str.strip()
RECURSIVE lstrip(_)
lstrip(s) == IF s # <<>> /\ IsSpace(Head(s)) THEN lstrip(Tail(s)) ELSE s

RECURSIVE rstrip(_)
rstrip(s) ==
    IF s # <<>> /\ IsSpace(s[Len(s)]) THEN rstrip(SubSeq(s, 1, Len(s) - 1)) ELSE s

strip(s) == rstrip(lstrip(s))

\* s.split(sep) for a separator of one atom: the pieces between the
\* separators, one more than there are separators.
RECURSIVE split(_, _, _)
split(s, sep, piece) ==
    IF s = <<>> THEN <<piece>>
    ELSE IF Head(s) = sep THEN <<piece>> \o split(Tail(s), sep, <<>>)
    ELSE split(Tail(s), sep, Append(piece, Head(s)))

\* sep.join(pieces)
RECURSIVE join(_, _)
join(sep, pieces) ==
    IF pieces = <<>> THEN <<>>
    ELSE IF Len(pieces) = 1 THEN pieces[1]
    ELSE pieces[1] \o <<sep>> \o join(sep, Tail(pieces))

\* x or y, for strings
or(x, y) == IF x # <<>> THEN x ELSE y

\* The sentence sent when both streams are empty ('Net otveta' in Russian
\* letters in the source).
NO_RESPONSE == <<"Net otveta">>

\* The sentence is left out: two empty streams give an empty response.
raw_response_no_sentinel(stdout, stderr) == or(strip(stdout), strip(stderr))

\* response = stdout.strip() or stderr.strip() or <the sentence>
raw_response(stdout, stderr) == or(strip(stdout), or(strip(stderr), NO_RESPONSE))

\* l.startswith('[') / l.startswith('Using model')
is_noise(l) == l # <<>> /\ Head(l) \in {"[", "Using model"}

\* The service lines are dropped; a text of which nothing is left is kept
\* as it was.
noise_filter(response) ==
    LET lines == split(response, "\n", <<>>)
        clean_lines == SelectSeq(lines, LAMBDA l : ~is_noise(l))
    IN or(strip(join("\n", clean_lines)), response)

\* The value of code_snippet when no block was extracted.
None == <<"None">>

LanguageTags == {<<"bash">>, <<"sh">>, <<"python">>, <<"js">>, <<"json">>}

\* has_code starts as True: a text without a block is reported with it.
has_code_default_true(response) ==
    LET parts == split(response, FENCE, <<>>)
        lines == split(parts[2], "\n", <<>>)
        code_snippet ==
            IF (\E i \in 1..Len(parts[2]) : parts[2][i] = "\n")
                   /\ strip(lines[1]) \in LanguageTags
            THEN join("\n", Tail(lines))
            ELSE parts[2]
    IN IF (\E i \in 1..Len(response) : response[i] = FENCE) /\ Len(parts) >= 3
       THEN [content |-> strip(parts[1] \o parts[3]), has_code |-> TRUE,
             code_snippet |-> strip(code_snippet)]
       ELSE [content |-> response, has_code |-> TRUE, code_snippet |-> None]

\* One marker is enough: the text after an unclosed marker is taken as a
\* block.
extract_code_unclosed(response) ==
    LET parts == split(response, FENCE, <<>>)
        lines == split(parts[2], "\n", <<>>)
        code_snippet ==
            IF (\E i \in 1..Len(parts[2]) : parts[2][i] = "\n")
                   /\ strip(lines[1]) \in LanguageTags
            THEN join("\n", Tail(lines))
            ELSE parts[2]
    IN IF (\E i \in 1..Len(response) : response[i] = FENCE) /\ Len(parts) >= 2
       THEN [content |-> strip(parts[1] \o (IF Len(parts) > 2 THEN parts[3] ELSE <<>>)),
             has_code |-> TRUE, code_snippet |-> strip(code_snippet)]
       ELSE [content |-> response, has_code |-> FALSE, code_snippet |-> None]

\* api.py: the first block between fence markers is taken out of the text.
extract_code(response) ==
    LET parts == split(response, FENCE, <<>>)
        lines == split(parts[2], "\n", <<>>)
        code_snippet ==
            IF (\E i \in 1..Len(parts[2]) : parts[2][i] = "\n")
                   /\ strip(lines[1]) \in LanguageTags
            THEN join("\n", Tail(lines))
            ELSE parts[2]
    IN IF (\E i \in 1..Len(response) : response[i] = FENCE) /\ Len(parts) >= 3
       THEN [content |-> strip(parts[1] \o parts[3]), has_code |-> TRUE,
             code_snippet |-> strip(code_snippet)]
       ELSE [content |-> response, has_code |-> FALSE, code_snippet |-> None]

\* ------------------------------------------- the response of one call
\* Length of a captured standard output, in atoms.
MaxText == 5
\* Length of the captured streams when both are given, in atoms.
MaxStream == 2

TextAtoms == {FENCE, "\n", " ", "[", "a", "python"}
StreamAtoms == {"\n", " ", "a"}

\* Standard output of scenario D, and an output with a model banner.
ScenarioD ==
    <<"Explanation text", "\n", FENCE, "python", "\n", "print(1)", "\n",
      FENCE, "\n", "more text">>
Banner == <<"Using model", " ", "a", "\n", "a">>

\* What communicate() returns, <<stdout, stderr>>: an output with an empty
\* error stream, or two short streams.
Captures ==
    { <<o, <<>>>> : o \in UNION { [1..n -> TextAtoms] : n \in 0..MaxText }
                          \cup {ScenarioD, Banner} }
    \cup
    { <<o, e>> : o, e \in UNION { [1..n -> StreamAtoms] : n \in 0..MaxStream } }

\* The process of one call has exited and its streams are captured.
TextInit ==
    /\ ep \in {"api", "bot"}
    /\ busy = TRUE
    /\ faults = 0
    /\ task = [r \in Req |-> NewTask]
    /\ io \in { [pc |-> "communicate", stdout |-> c[1], stderr |-> c[2]] : c \in Captures }

\* The message of the response: api.py filters, extracts and sends the
\* three fields; bot.py filters and sends the text.
response_message(response) ==
    IF ep = "api"
    THEN extract_code(noise_filter(response))
    ELSE [content |-> noise_filter(response)]

\* communicate() returned in `phase`: the raw response is taken from the
\* streams, and the message is made of it.
Complete(phase) ==
    /\ io.pc = "communicate"
    /\ LET response == raw_response(io.stdout, io.stderr)
       IN io' = [pc |-> "sent", phase |-> phase, stdout |-> io.stdout,
                 stderr |-> io.stderr, raw |-> response,
                 message |-> response_message(response)]
    /\ UNCHANGED <<ep, busy, faults, task>>

\* communicate(timeout=10) returned.
CompleteInitial == Complete("initial")

\* communicate(timeout=poll_interval) returned.
CompletePolled == Complete("poll")

TextNext == CompleteInitial \/ CompletePolled

TextSpec == TextInit /\ [][TextNext]_vars

\* --------------------------------------- the command line of one call
\* Length of a prompt, in atoms.
MaxPrompt == 4

\* The characters of a prompt the shell tells apart: the single quote, the
\* backslash, white space, an operator, and any other character.
PromptAtoms == {"a", "'", "\\", " ", "|", "\n"}

\* Both programs pass a prompt that is stripped and not empty.
Prompts ==
    { t \in UNION { [1..n -> PromptAtoms] : n \in 1..MaxPrompt } : strip(t) = t }

\* The quote is escaped by a backslash alone.
RECURSIVE backslash_quote(_)
backslash_quote(text) ==
    IF text = <<>> THEN <<>>
    ELSE (IF Head(text) = "'" THEN <<"\\", "'">> ELSE <<Head(text)>>)
         \o backslash_quote(Tail(text))

\* escaped_text = text.replace("'", "'\\''")
RECURSIVE escaped_text(_)
escaped_text(text) ==
    IF text = <<>> THEN <<>>
    ELSE (IF Head(text) = "'" THEN <<"'", "\\", "'", "'">> ELSE <<Head(text)>>)
         \o escaped_text(Tail(text))

\* The words of the pipeline after the prompt.
Pipeline ==
    << <<"claude">>, <<"-p">>, <<"--continue">>, <<"--model">>, <<"haiku">>,
       <<"--input-format">>, <<"text">> >>

\* claude_command = f"echo '{escaped_text}' | claude -p --continue ..."
claude_command(text) ==
    <<"echo", " ", "'">> \o escaped_text(text) \o <<"'", " ", "|", " ">>
    \o join(" ", Pipeline)

\* What the shell reads: words, operators, or a quote that is not closed.
Word(w) == [kind |-> "word", text |-> w]
Operator(c) == [kind |-> "operator", text |-> <<c>>]
Unterminated(w) == [kind |-> "unterminated", text |-> w]

\* sh -c command (Popen with shell=True) cuts the command line into
\* tokens: between single quotes every character stands for itself;
\* outside, a backslash makes the next character stand for itself (and
\* removes a newline), white space ends a word, | and newline are operators.
RECURSIVE sh_tokens(_, _, _, _)
sh_tokens(s, quoted, word, started) ==
    LET flush == IF started THEN <<Word(word)>> ELSE <<>>
        c == Head(s)
    IN IF s = <<>> THEN (IF quoted THEN <<Unterminated(word)>> ELSE flush)
       ELSE IF quoted
       THEN IF c = "'" THEN sh_tokens(Tail(s), FALSE, word, TRUE)
            ELSE sh_tokens(Tail(s), TRUE, Append(word, c), TRUE)
       ELSE IF c = "'" THEN sh_tokens(Tail(s), TRUE, word, TRUE)
       ELSE IF c = "\\"
       THEN IF Len(s) = 1 THEN sh_tokens(Tail(s), FALSE, Append(word, c), TRUE)
            ELSE IF s[2] = "\n" THEN sh_tokens(Tail(Tail(s)), FALSE, word, started)
            ELSE sh_tokens(Tail(Tail(s)), FALSE, Append(word, s[2]), TRUE)
       ELSE IF c = " " THEN flush \o sh_tokens(Tail(s), FALSE, <<>>, FALSE)
       ELSE IF c \in {"|", "\n"}
       THEN flush \o <<Operator(c)>> \o sh_tokens(Tail(s), FALSE, <<>>, FALSE)
       ELSE sh_tokens(Tail(s), FALSE, Append(word, c), TRUE)

\* A call has taken the busy flag and holds its prompt.
QuoteInit ==
    /\ ep \in {"api", "bot"}
    /\ busy = TRUE
    /\ faults = 0
    /\ task = [r \in Req |-> NewTask]
    /\ io \in { [pc |-> "prompt", text |-> t] : t \in Prompts }

\* The command line is made of the prompt.
BuildCommand ==
    /\ io.pc = "prompt"
    /\ io' = [pc |-> "command", text |-> io.text,
              claude_command |-> claude_command(io.text)]
    /\ UNCHANGED <<ep, busy, faults, task>>

\* Popen(claude_command, shell=True): the shell reads the command line.
ShellRead ==
    /\ io.pc = "command"
    /\ io' = [pc |-> "spawned", text |-> io.text,
              claude_command |-> io.claude_command,
              tokens |-> sh_tokens(io.claude_command, FALSE, <<>>, FALSE)]
    /\ UNCHANGED <<ep, busy, faults, task>>

QuoteNext == BuildCommand \/ ShellRead

QuoteSpec == QuoteInit /\ [][QuoteNext]_vars

\* ------------------------------------------------- registration and login
\* Challenges issued in one run, and the largest signature counter an
\* authenticator shows.
MaxChallenges == 3
MaxSignCount == 2

\* NULL of the column current_challenge; a challenge is <<n>>.
NULL == <<>>

Usernames == {"admin", "eve"}

\* The private keys of two authenticators; the public key of a credential
\* is named as its private key, and its credential id after it.
Keys == {"k1", "k2"}
credential_id_of(key) == IF key = "k1" THEN "id1" ELSE "id2"

\* What a caller sends to a completion endpoint: the response of an
\* authenticator to navigator.credentials.create() or .get(), made over a
\* challenge with a key, with the signature counter of the authenticator.
Credentials ==
    [ type : {"webauthn.create", "webauthn.get"},
      challenge : { <<n>> : n \in 1..MaxChallenges },
      key : Keys,
      sign_count : 0..MaxSignCount ]

\* SELECT * FROM users WHERE username = ?: the rows found (none: None).
get_user_by_username(users, username) == { u \in users : u.username = username }

\* INSERT INTO users (username, credential_id, public_key)
create_user(users, username, credential_id, public_key) ==
    users \cup { [ username |-> username, credential_id |-> credential_id,
                   public_key |-> public_key, sign_count |-> 0,
                   current_challenge |-> NULL ] }

\* UPDATE users SET current_challenge = ? WHERE username = ?
update_challenge(users, username, challenge) ==
    { IF u.username = username THEN [u EXCEPT !.current_challenge = challenge] ELSE u
      : u \in users }

\* UPDATE users SET sign_count = ? WHERE credential_id = ?
update_sign_count(users, credential_id, sign_count) ==
    { IF u.credential_id = credential_id THEN [u EXCEPT !.sign_count = sign_count] ELSE u
      : u \in users }

\* SELECT COUNT(*) FROM users
count_users(users) == Cardinality(users)

\* jwt.encode of {"sub": username, "exp": ...}
create_access_token(username) == <<"sub", username>>
NoToken == <<>>

\* webauthn.verify_registration_response returns (TRUE) for a response of
\* type create made over the expected challenge, with whatever new key, and
\* raises otherwise.
verify_registration_response(credential, expected_challenge) ==
    /\ credential.type = "webauthn.create"
    /\ credential.challenge = expected_challenge

\* webauthn.verify_authentication_response returns for a response of type
\* get made over the expected challenge, signed with the key whose public
\* key is given, and with a signature counter that has advanced.
verify_authentication_response(credential, expected_challenge, credential_public_key, credential_current_sign_count) ==
    /\ credential.type = "webauthn.get"
    /\ credential.challenge = expected_challenge
    /\ credential.key = credential_public_key
    /\ (credential.sign_count > 0 \/ credential_current_sign_count > 0)
          => credential.sign_count > credential_current_sign_count

\* The database: the table users, and the number of challenges generated.
\* Each operator below gives the set of outcomes of one function.

\* The new challenge is stored for the user; options.challenge.decode
\* raises when the random bytes are not UTF-8, before anything is stored.
generate_webauthn_registration_options(d, username) ==
    { [ d |-> [ users |-> update_challenge(d.users, username, <<d.issued + 1>>),
                issued |-> d.issued + 1 ],
        raised |-> FALSE ],
      [ d |-> d, raised |-> TRUE ] }

\* False without a user or a stored challenge.  A response that verifies
\* against the stored challenge is written to the row and the challenge is
\* cleared; every exception (of the verification, or of decode when the
\* bytes of the credential are not UTF-8) gives False.
verify_webauthn_registration(d, username, credential) ==
    LET user == get_user_by_username(d.users, username)
    IN IF user = {} \/ (\E u \in user : u.current_challenge = NULL)
       THEN { [d |-> d, success |-> FALSE] }
       ELSE LET u == CHOOSE u \in user : TRUE
            IN IF verify_registration_response(credential, u.current_challenge)
               THEN { [ d |-> [d EXCEPT !.users =
                                 (@ \ {u}) \cup
                                 { [u EXCEPT !.credential_id = credential_id_of(credential.key),
                                             !.public_key = credential.key,
                                             !.current_challenge = NULL] }],
                        success |-> TRUE ],
                      [d |-> d, success |-> FALSE] }
               ELSE { [d |-> d, success |-> FALSE] }

\* A user without a credential gets ValueError; else the new challenge is
\* stored, unless its bytes are not UTF-8.
generate_webauthn_authentication_options(d, username) ==
    LET user == get_user_by_username(d.users, username)
    IN IF user = {} \/ (\E u \in user : u.credential_id = "")
       THEN { [d |-> d, raised |-> TRUE] }
       ELSE { [ d |-> [ users |-> update_challenge(d.users, username, <<d.issued + 1>>),
                        issued |-> d.issued + 1 ],
                raised |-> FALSE ],
              [ d |-> d, raised |-> TRUE ] }

\* The challenge is left in the row after a successful authentication.
verify_webauthn_authentication_keeps_challenge(d, username, credential) ==
    LET user == get_user_by_username(d.users, username)
    IN IF user = {} \/ (\E u \in user : u.current_challenge = NULL)
       THEN { [d |-> d, success |-> FALSE] }
       ELSE LET u == CHOOSE u \in user : TRUE
            IN IF verify_authentication_response(credential, u.current_challenge,
                                                 u.public_key, u.sign_count)
               THEN { [ d |-> [d EXCEPT !.users =
                                 update_sign_count(@, u.credential_id, credential.sign_count)],
                        success |-> TRUE ] }
               ELSE { [d |-> d, success |-> FALSE] }

\* False without a user or a stored challenge.  A response that verifies
\* against the stored challenge, public key and counter advances the
\* counter and clears the challenge; every exception gives False.
verify_webauthn_authentication(d, username, credential) ==
    LET user == get_user_by_username(d.users, username)
    IN IF user = {} \/ (\E u \in user : u.current_challenge = NULL)
       THEN { [d |-> d, success |-> FALSE] }
       ELSE LET u == CHOOSE u \in user : TRUE
            IN IF verify_authentication_response(credential, u.current_challenge,
                                                 u.public_key, u.sign_count)
               THEN { [ d |-> [d EXCEPT !.users =
                                 update_challenge(
                                   update_sign_count(@, u.credential_id, credential.sign_count),
                                   username, NULL)],
                        success |-> TRUE ] }
               ELSE { [d |-> d, success |-> FALSE] }

\* The answer of an endpoint: the database after the call, the HTTP status
\* and the token of the body.
Answer(d, status, token) == [d |-> d, status |-> status, token |-> token]

\* POST /api/auth/register/begin
register_begin(d, username) ==
    IF count_users(d.users) > 0 THEN { Answer(d, 400, NoToken) }
    ELSE IF get_user_by_username(d.users, username) # {} THEN { Answer(d, 400, NoToken) }
    ELSE LET created == [d EXCEPT !.users = create_user(@, username, "", "")]
         IN { Answer(o.d, IF o.raised THEN 500 ELSE 200, NoToken)
              : o \in generate_webauthn_registration_options(created, username) }

\* POST /api/auth/register/complete
register_complete(d, username, credential) ==
    { IF o.success THEN Answer(o.d, 200, create_access_token(username))
      ELSE Answer(o.d, 400, NoToken)
      : o \in verify_webauthn_registration(d, username, credential) }

\* POST /api/auth/login/begin
login_begin(d, username) ==
    IF get_user_by_username(d.users, username) = {} THEN { Answer(d, 404, NoToken) }
    ELSE { Answer(o.d, IF o.raised THEN 500 ELSE 200, NoToken)
           : o \in generate_webauthn_authentication_options(d, username) }

\* POST /api/auth/login/complete
login_complete(d, username, credential) ==
    { IF o.success THEN Answer(o.d, 200, create_access_token(username))
      ELSE Answer(o.d, 401, NoToken)
      : o \in verify_webauthn_authentication(d, username, credential) }

\* The table is empty; io holds the database and the last call with its
\* answer.
AuthInit ==
    /\ ep = "api"
    /\ busy = FALSE
    /\ faults = 0
    /\ task = [r \in Req |-> NewTask]
    /\ io = [ pc |-> "auth", users |-> {}, issued |-> 0,
              call |-> "none", username |-> "", status |-> 0, token |-> NoToken ]

Database == [users |-> io.users, issued |-> io.issued]

\* The handler of a call ran to its end (it has no await) and answered.
Answered(call, username, answer) ==
    /\ io.pc = "auth"
    /\ io' = [ pc |-> "auth", users |-> answer.d.users, issued |-> answer.d.issued,
               call |-> call, username |-> username,
               status |-> answer.status, token |-> answer.token ]
    /\ UNCHANGED <<ep, busy, faults, task>>

RegisterBegin ==
    \E username \in Usernames :
        /\ io.issued < MaxChallenges
        /\ \E a \in register_begin(Database, username) :
              Answered("register_begin", username, a)

RegisterComplete ==
    \E username \in Usernames, credential \in Credentials :
        \E a \in register_complete(Database, username, credential) :
            Answered("register_complete", username, a)

LoginBegin ==
    \E username \in Usernames :
        /\ io.issued < MaxChallenges
        /\ \E a \in login_begin(Database, username) :
              Answered("login_begin", username, a)

LoginComplete ==
    \E username \in Usernames, credential \in Credentials :
        \E a \in login_complete(Database, username, credential) :
            Answered("login_complete", username, a)

AuthNext == RegisterBegin \/ RegisterComplete \/ LoginBegin \/ LoginComplete

AuthSpec == AuthInit /\ [][AuthNext]_vars

\* ================================================================ claims
Holders == {r \in Req : Holding(task[r])}
Returned(r) == task[r].pc # "done" /\ task'[r].pc = "done"
HasKind(t, kind) == \E i \in 1..Len(t.events) : t.events[i].kind = kind
Delivered(t) == SelectSeq(t.events, LAMBDA e : e.ok)
IsTerminal(e) == e.kind \in {"response", "busy", "timeout", "error"}

\* C1: a call that acquired the busy flag leaves it false at the step in
\* which it returns, whatever the outcome: normal completion, timeout,
\* spawn failure, or an exception at any step.
C1_GateFreeOnReturn ==
    [][\A r \in Req : (Returned(r) /\ task'[r].acq > 0) => busy' = FALSE]_vars

\* A call that acquired the flag has ended by an exception and the flag is free.
C1_Witness ==
    \E r \in Req : /\ task[r].pc = "done" /\ task[r].acq = 1
                   /\ task[r].result = "raised" /\ busy = FALSE

\* C2: at most one execution is between acquisition and release, so at
\* most one call that has not returned owns a spawned process.
C2_SingleFlight ==
    /\ Cardinality(Holders) <= 1
    /\ Cardinality({r \in Req : task[r].pc # "done" /\ task[r].shell # "none"}) <= 1

\* One call holds the flag with its process running while another request
\* has been submitted and has not run yet.
C2_Witness ==
    \E r, q \in Req : /\ r # q /\ Holding(task[r]) /\ task[r].shell = "running"
                      /\ task[q].pc = "start"

\* The flag against the calls that hold it, and the bookkeeping of each call.
C3_FlagState ==
    /\ busy = (Cardinality(Holders) = 1)
    /\ \A r \in Req :
         /\ task[r].rel <= task[r].acq /\ task[r].acq <= 1
         /\ (task[r].pc = "done" => task[r].rel = task[r].acq)
         /\ (HasKind(task[r], "busy") => task[r].acq = 0 /\ task[r].rel = 0)

\* The step that sends a Busy message is taken while another call holds the flag.
C3_BusyStep ==
    \A r \in Req :
        (task'[r] # task[r] /\ HasKind(task'[r], "busy"))
            => \E q \in Req \ {r} : Holding(task[q]) /\ Holding(task'[q])

\* C3: the busy flag is true exactly when one call has acquired it and not
\* released it; a call releases once per acquisition, a rejected request
\* never acquires or releases, and a Busy message is sent only in a step in
\* which another call holds the flag.
C3_FlagMatchesHolder == []C3_FlagState /\ [][C3_BusyStep]_vars

\* A request was rejected while another call holds the flag.
C3_Witness ==
    \E r, q \in Req : /\ r # q /\ busy /\ Holding(task[q])
                      /\ task[r].pc = "done" /\ HasKind(task[r], "busy")

\* C4: the step of a request that finds the flag set spawns nothing, sends
\* no signal, leaves the flag as it was, makes exactly one reporter call, a
\* Busy message, and changes nothing of the call that holds the flag.
C4_RejectFrame ==
    [][\A r \in Req :
         (task[r].pc = "start" /\ busy /\ task'[r] # task[r]) =>
            /\ busy' = busy
            /\ task'[r].pc = "done"
            /\ task'[r].shell = "none" /\ task'[r].child = "none"
            /\ task'[r].sigs = <<>>
            /\ task'[r].acq = 0 /\ task'[r].rel = 0
            /\ Len(task'[r].events) = 1 /\ task'[r].events[1].kind = "busy"
            /\ \A q \in Req \ {r} : Holding(task[q]) => task'[q] = task[q]]_vars

\* A request was rejected while the holder, which has already reported
\* progress, still has its process running.
C4_Witness ==
    \E r, q \in Req : /\ r # q /\ task[r].pc = "done" /\ HasKind(task[r], "busy")
                      /\ Holding(task[q]) /\ task[q].shell = "running"
                      /\ HasKind(task[q], "progress")

\* C5: after a call returns, no member of the process group it spawned is
\* still running, neither the shell nor the child it launched.
C5_NoMemberAfterReturn ==
    \A r \in Req : task[r].pc = "done" =>
        task[r].shell # "running" /\ task[r].child # "running"

\* C6: once the hard ceiling is reached, the call never reports the
\* execution-error outcome.
C6_CeilingReportsTimeout ==
    \A r \in Req : task[r].ceiling => ~HasKind(task[r], "error")

\* C7: the events delivered for a request are progress events followed by
\* one terminal event (a split response counting as one event with its
\* continuation parts), nothing is delivered after the terminal event, and
\* a call whose deliveries all succeeded ends with exactly one.
C7_ProgressThenOneTerminal ==
    \A r \in Req :
        LET d == Delivered(task[r])
        IN /\ \A i \in 1..Len(d) : IsTerminal(d[i]) =>
                 \A j \in (i + 1)..Len(d) : d[i].kind = "response" /\ d[j].kind = "part"
           /\ \A i \in 1..Len(d) : d[i].kind = "part" =>
                 \E j \in 1..(i - 1) : d[j].kind = "response"
           /\ (task[r].pc = "done" /\ d = task[r].events /\ d # <<>>) =>
                 Cardinality({i \in 1..Len(d) : IsTerminal(d[i])}) = 1

\* C8: a process is spawned only for a request whose caller passes the
\* authorization check.
C8_SpawnOnlyForAuthorized ==
    \A r \in Req : task[r].shell # "none" => task[r].auth

\* C9: no exception leaves the executor: every call returns normally.
C9_NoExceptionLeaves ==
    \A r \in Req : task[r].result # "raised"

\* C10: the accumulated wait never exceeds 300 seconds and no progress
\* event shows an elapsed value above 300.
C10_WaitWithinCeiling ==
    \A r \in Req :
        /\ task[r].elapsed <= HARD_CEILING
        /\ \A i \in 1..Len(task[r].events) : task[r].events[i].elapsed <= HARD_CEILING

\* The progress events of a call, in the order they were made.
ProgressOf(t) == SelectSeq(t.events, LAMBDA e : e.kind = "progress")

\* C11: for a process that exits t seconds after the spawn, no progress
\* event is made when t is inside the initial 10 seconds; otherwise the
\* first one shows no elapsed value and one follows for each full 30 seconds
\* after the 10th, showing 40, 70, ... (t = 2: none; t = 45: two, the
\* second showing 40); a call that returns with no error event has made the
\* response and no timeout report.
C11_ProgressSchedule ==
    \A r \in Req : task[r].exit_at > 0 =>
        LET t == task[r].exit_at
            p == ProgressOf(task[r])
            n == (t - INITIAL_WAIT) \div poll_interval
        IN /\ (t <= INITIAL_WAIT => p = <<>>)
           /\ (t > INITIAL_WAIT =>
                 /\ Len(p) = 1 + n
                 /\ p[1].elapsed = 0
                 /\ \A i \in 1..n : p[i + 1].elapsed = INITIAL_WAIT + i * poll_interval)
           /\ (t = 2 => Len(p) = 0)
           /\ (t = 45 => Len(p) = 2 /\ p[2].elapsed = 40)
           /\ ((task[r].pc = "done" /\ ~HasKind(task[r], "error")) =>
                 HasKind(task[r], "response") /\ ~HasKind(task[r], "timeout"))

\* A call whose process exited at second 45 has returned after two progress
\* events and the response.
C11_Witness ==
    \E r \in Req : /\ task[r].exit_at = 45 /\ task[r].pc = "done"
                   /\ Len(ProgressOf(task[r])) = 2
                   /\ HasKind(task[r], "response")

\* C12: while a call is inside a wait for its process (the initial 10
\* seconds, a 30 second poll, the 5 second grace wait) the event loop can
\* take a step of another task: receive a message, or handle one it received.
C12_LoopFreeDuringWait ==
    \A r \in Req : Blocked(task[r]) =>
        \E q \in Req \ {r} : ENABLED (Receive(q) \/ Reject(q) \/ Start(q))

\* The flag is set while a call holds it, and that call is the only holder.
C13_HolderHasFlag ==
    \A r \in Req : Holding(task[r]) => busy /\ Holders = {r}

\* The flag falls only in the step in which its holder returns.
C13_FallIsReturn ==
    (busy /\ ~busy') => \E r \in Req : Holding(task[r]) /\ Returned(r)

\* C13: every call that took the busy flag returns and leaves the flag
\* free, whatever the process does: the flag is set while a call holds it,
\* it falls only when the holder returns, and a set flag always falls.
C13_EveryCallReturns ==
    /\ []C13_HolderHasFlag
    /\ [][C13_FallIsReturn]_vars
    /\ (busy ~> ~busy)

\* A call has returned whose process outlived the ceiling and the SIGTERM
\* of the ceiling branch and of the except block, and got SIGKILL.
C13_Witness ==
    \E r \in Req : /\ task[r].pc = "done" /\ task[r].ceiling /\ ~busy
                   /\ task[r].sigs = <<"SIGTERM", "SIGTERM", "SIGKILL">>

\* ---------------------------------------------------- claims on the text
\* A text without the white space at its two ends.
Trimmed(s) ==
    LET ink == {i \in 1..Len(s) : ~IsSpace(s[i])}
    IN IF ink = {} THEN <<>>
       ELSE SubSeq(s, CHOOSE i \in ink : \A j \in ink : i <= j,
                      CHOOSE i \in ink : \A j \in ink : j <= i)

\* Number of fence markers of a text, and its lines.
FenceCount(s) == Cardinality({i \in 1..Len(s) : s[i] = FENCE})
LinesOf(s) == split(s, "\n", <<>>)
Sent == io.pc = "sent"

\* C14: the raw response of a process that exited is its trimmed standard
\* output if that is not empty, else its trimmed standard error if that is
\* not empty, else the sentence for no response; it is never empty, after
\* the initial wait and after a poll alike.
C14_RawResponse ==
    Sent =>
        /\ io.raw = (IF Trimmed(io.stdout) # <<>> THEN Trimmed(io.stdout)
                     ELSE IF Trimmed(io.stderr) # <<>> THEN Trimmed(io.stderr)
                     ELSE NO_RESPONSE)
        /\ io.raw # <<>>

\* After a poll, a standard output of white space only gave way to the
\* standard error, which was trimmed.
C14_Witness ==
    /\ Sent /\ io.phase = "poll"
    /\ io.stdout # <<>> /\ Trimmed(io.stdout) = <<>>
    /\ io.raw = Trimmed(io.stderr) /\ io.raw # io.stderr

\* C15: api.py reports a raw response without a fence marker with
\* has_code false, no code_snippet, and the noise-filtered text as content.
C15_NoFenceNoCode ==
    (Sent /\ ep = "api" /\ FenceCount(io.raw) = 0) =>
        /\ io.message.has_code = FALSE
        /\ io.message.code_snippet = None
        /\ io.message.content = noise_filter(io.raw)

\* A raw response without a fence marker, a noise line of which was
\* dropped, was reported by api.py.
C15_Witness ==
    /\ Sent /\ ep = "api" /\ FenceCount(io.raw) = 0
    /\ io.message.content # io.raw /\ io.message.has_code = FALSE

\* C16: for a raw response with exactly two fence markers whose enclosed
\* text starts with a line that is a language tag, code_snippet is the rest
\* of the enclosed text, trimmed, also when nothing follows the tag.
C16_TagLineExcluded ==
    (Sent /\ ep = "api" /\ FenceCount(io.raw) = 2) =>
        LET enclosed == LinesOf(split(io.raw, FENCE, <<>>)[2])
        IN enclosed[1] \in LanguageTags =>
              io.message.code_snippet = Trimmed(join("\n", Tail(enclosed)))

\* C17: of a text with two or more fenced blocks the first block is taken
\* out, and the content is what precedes it followed by all that follows
\* it, the later blocks with their markers included.
C17_LaterBlocksKept ==
    (Sent /\ ep = "api" /\ FenceCount(noise_filter(io.raw)) >= 4) =>
        LET parts == split(noise_filter(io.raw), FENCE, <<>>)
        IN /\ io.message.has_code
           /\ io.message.content =
                 Trimmed(parts[1] \o join(FENCE, SubSeq(parts, 3, Len(parts))))

\* C18: the standard output of scenario D is reported with the content
\* 'Explanation text', one newline, 'more text', the code 'print(1)' and
\* has_code true.
C18_ScenarioD ==
    (Sent /\ ep = "api" /\ io.stdout = ScenarioD) =>
        io.message = [content |-> <<"Explanation text", "\n", "more text">>,
                      has_code |-> TRUE, code_snippet |-> <<"print(1)">>]

\* C19: no line of the reported text begins with '[' or 'Using model',
\* unless every line of the raw response does, and then the reported text
\* is the raw response and is not empty.
C19_NoNoiseLine ==
    Sent =>
        LET raw_lines == LinesOf(io.raw)
            lines == LinesOf(io.message.content)
        IN IF \A i \in 1..Len(raw_lines) : is_noise(raw_lines[i])
           THEN io.message.content = io.raw /\ io.raw # <<>>
           ELSE \A i \in 1..Len(lines) : ~is_noise(lines[i])

\* C20: the shell reads the command line made of a prompt as the word echo,
\* one word that is the prompt, the operator | and the words of the fixed
\* pipeline: no character of the prompt closes the quote or is an operator.
C20_PromptIsOneArgument ==
    io.pc = "spawned" =>
        io.tokens = <<Word(<<"echo">>), Word(io.text), Operator("|")>>
                    \o [i \in 1..Len(Pipeline) |-> Word(Pipeline[i])]

\* The shell has read a command line whose prompt holds a single quote, a
\* backslash and an operator character.
C20_Witness ==
    /\ io.pc = "spawned"
    /\ {"'", "\\", "|"} \subseteq {io.text[i] : i \in 1..Len(io.text)}
    /\ io.tokens[2] = Word(io.text)

\* ------------------------------------------- claims on the termination
\* The process group of the call has been spawned and has no member left.
Terminated(t) == t.shell = "exited" /\ t.child = "exited"

\* On a process group that has terminated the last statement of finally
\* changes nothing: no signal, no event, no exception, the same flag; and
\* so does running it again.
C21_NothingToKill ==
    \A r \in Req : Terminated(task[r]) =>
        /\ final_kill(World(r)) = {World(r)}
        /\ UNION { final_kill(x) : x \in final_kill(World(r)) } = final_kill(World(r))

\* The step in which a call returns whose process group had terminated
\* sends no signal and makes no reporter call.
C21_ReturnStep ==
    \A r \in Req : (Returned(r) /\ Terminated(task[r])) =>
        /\ task'[r].sigs = task[r].sigs
        /\ task'[r].events = task[r].events

\* C21: the forceful kill at the end of finally, run on a process group
\* that has already terminated, raises nothing, sends no signal, makes no
\* reporter call and leaves the reported outcome and the busy flag as they
\* were; run twice it does what it does run once.
C21_FinalKillIdempotent == []C21_NothingToKill /\ [][C21_ReturnStep]_vars

\* A call whose process exited by itself has reported its response and
\* returned through finally with no signal sent.
C21_Witness ==
    \E r \in Req : /\ task[r].pc = "done" /\ Terminated(task[r])
                   /\ task[r].sigs = <<>> /\ HasKind(task[r], "response")
                   /\ ~busy

\* C22: when the error message is reported for a call whose process is
\* alive, SIGTERM has already been sent to its process group.
C22_TerminateBeforeError ==
    \A r \in Req :
        (HasKind(task[r], "error") /\ task[r].shell = "running") => Termed(task[r])

\* C23: SIGKILL is sent only after SIGTERM; a call that has returned and
\* sent anything after its first SIGTERM (the handle reported running when
\* the grace wait ended) has sent SIGKILL; SIGTERM is sent only when the
\* ceiling was reached or an error was reported.
C23_EscalationOrder ==
    \A r \in Req :
        /\ \A i \in 1..Len(task[r].sigs) : task[r].sigs[i] = "SIGKILL" =>
              \E j \in 1..(i - 1) : task[r].sigs[j] = "SIGTERM"
        /\ (task[r].pc = "done" /\ Len(task[r].sigs) >= 2
                                /\ task[r].sigs[1] = "SIGTERM") =>
              \E i \in 1..Len(task[r].sigs) : task[r].sigs[i] = "SIGKILL"
        /\ Termed(task[r]) => (task[r].ceiling \/ HasKind(task[r], "error"))

\* C24: a call that has made the timeout report has a process handle that
\* reports exited.
C24_TimeoutAfterExit ==
    \A r \in Req : HasKind(task[r], "timeout") => task[r].shell = "exited"

\* The timeout report was delivered for a process that was sent SIGTERM at
\* the ceiling.
C24_Witness ==
    \E r \in Req : /\ task[r].ceiling /\ task[r].sigs = <<"SIGTERM">>
                   /\ \E i \in 1..Len(task[r].events) :
                         task[r].events[i].kind = "timeout" /\ task[r].events[i].ok

\* C25: the executor of api.py and the handler of bot.py are one lifecycle
\* machine: from the gate on, with a reporter that does not fail, whatever
\* the process does (exit time, reaction to signals, failure of the spawn or
\* of a system call), the two stand at the same wait or await with the same
\* flag, signals and events, and every step one of them can take the other
\* can take to the same observation.
C25_SameLifecycle ==
    io.pc = "pair" =>
        /\ Obs(io.a) = Obs(io.b)
        /\ { Obs(x) : x \in lifecycle_step(io.a) } = { Obs(y) : y \in lifecycle_step(io.b) }

\* Both calls have returned after a response found in the polling loop,
\* which bot.py sent in several messages.
C25_Witness ==
    /\ io.pc = "pair"
    /\ io.a.t.pc = "done" /\ io.b.t.pc = "done"
    /\ HasKind(io.a.t, "response") /\ HasKind(io.b.t, "part")
    /\ io.a.t.elapsed > INITIAL_WAIT

\* C26: the text of the response message of a call whose process exited is
\* not empty, whatever the process wrote.
C26_ResponseNotEmpty == Sent => io.message.content # <<>>

\* C27 as stated: a raw response with exactly one fence marker is reported
\* by api.py with has_code false, no code_snippet and the noise-filtered
\* text as content, and the marker is in that content.
C27_UnclosedBlock ==
    (Sent /\ ep = "api" /\ FenceCount(io.raw) = 1) =>
        /\ io.message.has_code = FALSE
        /\ io.message.code_snippet = None
        /\ io.message.content = noise_filter(io.raw)
        /\ FenceCount(io.message.content) = 1

\* The marker stands on a line that the noise filter drops: a line that
\* begins with '[' or 'Using model', in a text that has other lines left.
MarkerDropped(raw) == FenceCount(noise_filter(raw)) < FenceCount(raw)

\* C27, amended: a raw response with exactly one fence marker is reported
\* by api.py with has_code false, no code_snippet and the noise-filtered
\* text as content; the extraction removes no marker, so the marker is in
\* the content unless the noise filter dropped the line it stands on.
C27_UnclosedBlockAmended ==
    (Sent /\ ep = "api" /\ FenceCount(io.raw) = 1) =>
        /\ io.message.has_code = FALSE
        /\ io.message.code_snippet = None
        /\ io.message.content = noise_filter(io.raw)
        /\ FenceCount(io.message.content) = (IF MarkerDropped(io.raw) THEN 0 ELSE 1)

\* A raw response with one marker, a noise line of which was dropped, was
\* reported by api.py with the marker in its content.
C27_Witness ==
    /\ Sent /\ ep = "api" /\ FenceCount(io.raw) = 1
    /\ io.message.content # io.raw /\ FenceCount(io.message.content) = 1

\* C28: every part bot.py sends of a response longer than the limit is
\* not empty and at most 4000 characters long, and the parts together are
\* the response followed by one newline.
C28_PartsWithinLimit ==
    (io.pc = "parts" /\ io.sent > 0) =>
        /\ io.parts[io.sent] > 0
        /\ io.parts[io.sent] <= SPLIT_LIMIT
        /\ SumLens(io.parts) = TextLen(io.lines) + 1

\* ------------------------------------- claims on registration and login
\* The row of a user, and the challenge it holds (NULL without a row).
RowOf(users, username) == { u \in users : u.username = username }
ChallengeOf(users, username) ==
    IF RowOf(users, username) = {} THEN NULL
    ELSE (CHOOSE u \in RowOf(users, username) : TRUE).current_challenge
Registered(users) == \E u \in users : u.credential_id # ""

\* At most one row exists.
C29_OneUser == io.pc = "auth" => Cardinality(io.users) <= 1

\* A call of register_complete made when a user has a credential gets no
\* token and leaves the table as it was.
C29_NoSecondRegistration ==
    (io.pc = "auth" /\ Registered(io.users) /\ io'.call = "register_complete") =>
        /\ io'.token = NoToken
        /\ \A u \in io'.users : \E v \in io.users :
              u.username = v.username /\ u.credential_id = v.credential_id
                                      /\ u.public_key = v.public_key

\* C29: registration is closed after the first user: under every sequence
\* of the four calls at most one user row exists, and once the user has a
\* credential no call of register_complete replaces it or obtains a token.
C29_RegistrationClosed == []C29_OneUser /\ [][C29_NoSecondRegistration]_vars

\* After a completion call that succeeded the challenge of its user is
\* cleared.
C30_ClearedAfterSuccess ==
    (io.pc = "auth" /\ io.call \in {"register_complete", "login_complete"}
                   /\ io.status = 200) =>
        ChallengeOf(io.users, io.username) = NULL

\* A completion call for a user without a stored challenge fails and gets
\* no token, and only a begin call that succeeds stores a challenge.
C30_CompletionNeedsChallenge ==
    io.pc = "auth" =>
        /\ (io'.call \in {"register_complete", "login_complete"}
               /\ ChallengeOf(io.users, io'.username) = NULL) =>
              (io'.status # 200 /\ io'.token = NoToken)
        /\ \A n \in Usernames :
              (ChallengeOf(io'.users, n) # ChallengeOf(io.users, n)
                 /\ ChallengeOf(io'.users, n) # NULL) =>
                    /\ io'.call \in {"register_begin", "login_begin"}
                    /\ io'.username = n /\ io'.status = 200

\* C30: a stored challenge is used once: a completion call that succeeds
\* clears the challenge of its user, every completion call for a user
\* without a stored challenge fails and yields no token, and a challenge is
\* stored by a begin call only.
C30_ChallengeSingleUse ==
    []C30_ClearedAfterSuccess /\ [][C30_CompletionNeedsChallenge]_vars

\* A login was completed with a token: the challenge stored by login_begin
\* is gone.
C30_Witness ==
    /\ io.pc = "auth" /\ io.call = "login_complete" /\ io.status = 200
    /\ io.token # NoToken /\ io.issued >= 2
    /\ ChallengeOf(io.users, io.username) = NULL

====
